---- MODULE Spec2Model ----
(***************************************************************************)
(* Results post-processing layer of NRV: fascicle_results (population      *)
(* aggregation over per-axon entries of a dictionary-like container) and   *)
(* myelinated_results (node / internode sequence classification).          *)
(*                                                                         *)
(* Keys of the container are strings; they are modelled as sequences of    *)
(* one-character strings so that the substring test and the digit test of  *)
(* get_axons_key are computed character by character.                      *)
(* A ratio n / d computed by the code as a float is kept as the pair       *)
(* <<n, d>>.  An optional value is a sequence of length at most one, <<>>  *)
(* standing for Python's None; a call that returns None has status "none". *)
(***************************************************************************)
EXTENDS Integers, Sequences, FiniteSets, TLC

VARIABLES fasc, ret, mye, myl, par, proc, opt

vars == <<fasc, ret, mye, myl, par, proc, opt>>

(***************************************************************************)
(* Bounds of the model                                                     *)
(***************************************************************************)
MaxAxons == 2        \* axon entries a fascicle may hold
MaxKeys == 3         \* keys (axon entries and fields) a fascicle may hold
MaxBlockCalls == 1   \* block_summary invocations recorded per axon
MaxXrec == 24        \* largest len(x_rec) of a myelinated result
MaxNseg == 2         \* largest Nseg_per_sec of a myelinated result
MaxMyelin == 2       \* largest number of myelin conductance values of an axon
MaxIt == 2           \* iterations of an optimisation run

(***************************************************************************)
(* Strings                                                                 *)
(***************************************************************************)
Digits == <<"0", "1", "2", "3", "4", "5", "6", "7", "8", "9">>

DigitChars == {Digits[k] : k \in 1..10}

\* "axon": the literal searched for in a key
AxonWord == <<"a", "x", "o", "n">>

\* sub in s  (Python substring test)
IsSubstr(sub, s) ==
    \E k \in 0..(Len(s) - Len(sub)) :
        \A j \in 1..Len(sub) : s[k + j] = sub[j]

number_in_str(s) == \E k \in 1..Len(s) : s[k] \in DigitChars

\* key of the axon entry of index k: "axon" + str(k)
AxonKey(k) == AxonWord \o <<Digits[k + 1]>>

\* fields of a fascicle result that are not axon entries
K_axons_diameter ==
    <<"a", "x", "o", "n", "s", "_", "d", "i", "a", "m", "e", "t", "e", "r">>

K_rec1 == <<"r", "e", "c", "1">>

FieldKeys == {K_axons_diameter, K_rec1}

AxonKeys == {AxonKey(k) : k \in 0..(MaxAxons - 1)}

recognized_axon_types == {"all", "myelinated", "unmyelinated"}

\* ax_type arguments tried by the calls: the recognized ones and another
AxTypes == recognized_axon_types \cup {"Myelinated"}

Diameters == {3, 5}

DiamArgs == {3, 5}

\* Python's None, for an optional value
None == <<>>

Some(v) == <<v>>

(***************************************************************************)
(* Outcomes of a call                                                      *)
(***************************************************************************)
Ok(v) == [status |-> "ok", val |-> v]

Raise(e) == [status |-> "error", val |-> e]

\* return None
OkNone == [status |-> "none", val |-> None]

\* rise_error logs the message and ends the call (fatal input error)
rise_error == Raise("rise_error")

(***************************************************************************)
(* The container: an ordered mapping, a sequence of entries with distinct  *)
(* keys.  kind = "axon" for an axon result, "field" for any other value.   *)
(***************************************************************************)
keys(f) == [k \in 1..Len(f) |-> f[k].key]

HasKey(f, key) == \E k \in 1..Len(f) : f[k].key = key

Item(f, key) == f[CHOOSE k \in 1..Len(f) : f[k].key = key]

AxonEntry(key, m, r, d, g) ==
    [key |-> key, kind |-> "axon", myelinated |-> m, recruited |-> r,
     diameter |-> d, g |-> g, bs |-> <<>>]

FieldEntry(key) ==
    [key |-> key, kind |-> "field", myelinated |-> FALSE, recruited |-> FALSE,
     diameter |-> 0, g |-> None, bs |-> <<>>]

NAxonEntries(f) == Cardinality({k \in 1..Len(f) : f[k].kind = "axon"})

\* axon_results.is_recruited(): idempotent, side-effect free
is_recruited(e) == e.recruited

(***************************************************************************)
(* fascicle_results                                                        *)
(***************************************************************************)
IsAxonKey_noaxon(i) == number_in_str(i)

IsAxonKey(i) == IsSubstr(AxonWord, i) /\ number_in_str(i)

TypeGuard_lax(ax_type) == ax_type \notin (recognized_axon_types \cup {"Myelinated"})

TypeGuard(ax_type) == ax_type \notin recognized_axon_types

TypeFilter_same(f, axon_keys, ax_type) ==
    SelectSeq(axon_keys, LAMBDA i : Item(f, i).myelinated = TRUE)

TypeFilter(f, axon_keys, ax_type) ==
    IF ax_type = "unmyelinated"
    THEN SelectSeq(axon_keys, LAMBDA i : Item(f, i).myelinated = FALSE)
    ELSE SelectSeq(axon_keys, LAMBDA i : Item(f, i).myelinated = TRUE)

get_axons_key(f, ax_type) ==
    IF TypeGuard(ax_type)
    THEN rise_error
    ELSE LET all_keys == keys(f)
             axon_keys == SelectSeq(all_keys, IsAxonKey)
         IN  IF ax_type # "all"
             THEN IF \E k \in 1..Len(axon_keys) :
                        Item(f, axon_keys[k]).kind # "axon"
                  THEN Raise("AttributeError")
                  ELSE Ok(TypeFilter(f, axon_keys, ax_type))
             ELSE Ok(axon_keys)

get_n_ax(f, ax_type) ==
    LET r == get_axons_key(f, ax_type)
    IN  IF r.status = "ok" THEN Ok(Len(r.val)) ELSE r

\* number of keys of the list ks whose entry satisfies P
CountIf(f, ks, P(_)) == Len(SelectSeq(ks, LAMBDA i : P(Item(f, i))))

Divide_guarded(n_recr, n_tot) ==
    IF n_tot = 0 THEN Ok(0) ELSE Ok(<<n_recr, n_tot>>)

\* n_recr /= n_tot
Divide(n_recr, n_tot) ==
    IF n_tot = 0 THEN Raise("ZeroDivisionError") ELSE Ok(<<n_recr, n_tot>>)

Denominator_len(f, ax_type) == Ok(Len(f))

Denominator(f, ax_type) == get_n_ax(f, ax_type)

get_recruited_axons(f, ax_type, normalize) ==
    LET r == get_axons_key(f, ax_type)
    IN  IF r.status # "ok" THEN r
        ELSE LET n_recr == CountIf(f, r.val, is_recruited)
             IN  IF normalize
                 THEN LET n == Denominator(f, ax_type)
                      IN  IF n.status # "ok" THEN n ELSE Divide(n_recr, n.val)
                 ELSE Ok(n_recr)

Greater_orequal(a, b) == a >= b

Greater(a, b) == a > b

Lesser(a, b) == a < b

get_recruited_axons_greater_than(f, diam, ax_type, normalize) ==
    LET r == get_axons_key(f, ax_type)
    IN  IF r.status # "ok" THEN r
        ELSE LET n_tot == CountIf(f, r.val, LAMBDA e : Greater(e.diameter, diam))
                 n_recr == CountIf(f, r.val,
                              LAMBDA e : Greater(e.diameter, diam) /\ is_recruited(e))
             IN  IF normalize THEN Divide(n_recr, n_tot) ELSE Ok(n_recr)

get_recruited_axons_lesser_than(f, diam, ax_type, normalize) ==
    LET r == get_axons_key(f, ax_type)
    IN  IF r.status # "ok" THEN r
        ELSE LET n_tot == CountIf(f, r.val, LAMBDA e : Lesser(e.diameter, diam))
                 n_recr == CountIf(f, r.val,
                              LAMBDA e : Lesser(e.diameter, diam) /\ is_recruited(e))
             IN  IF normalize THEN Divide(n_recr, n_tot) ELSE Ok(n_recr)

(***************************************************************************)
(* Conductivity and block summary                                          *)
(***************************************************************************)
\* values an axon's conductivity sample may take: unavailable, or a number
Samples == {None, Some(1), Some(2)}

\* axon_results.get_membrane_conductivity(x, t, unit, mem_th): the sample of
\* the axon at the requested position and time, None when unavailable
axon_get_membrane_conductivity(e) == e.g

RECURSIVE ConcatSamples_skip(_, _, _)
ConcatSamples_skip(f, a_keys, g) ==
    IF a_keys = <<>> THEN Ok(g)
    ELSE LET g_ == axon_get_membrane_conductivity(Item(f, Head(a_keys)))
         IN  IF g_ # None
             THEN ConcatSamples_skip(f, Tail(a_keys), g \o g_)
             ELSE ConcatSamples_skip(f, Tail(a_keys), g)

\* the loop of get_membrane_conductivity over a_keys, g the array built so far
RECURSIVE ConcatSamples(_, _, _)
ConcatSamples(f, a_keys, g) ==
    IF a_keys = <<>> THEN Ok(g)
    ELSE LET g_ == axon_get_membrane_conductivity(Item(f, Head(a_keys)))
         IN  IF g_ # None
             THEN ConcatSamples(f, Tail(a_keys), g \o g_)
             ELSE OkNone

get_membrane_conductivity(f) ==
    LET r == get_axons_key(f, "all")
    IN  IF r.status # "ok" THEN r ELSE ConcatSamples(f, r.val, <<>>)

\* axon_results.block_summary(AP_start, freq, t_refractory): writes the block
\* state onto the axon entry; the entry keeps the arguments of each invocation
block_summary(e, AP_start, freq, t_refractory) ==
    [e EXCEPT !.bs = Append(@, <<AP_start, freq, t_refractory>>)]

Refractory_swapped(e, t_refractory_m, t_refractory_um) ==
    IF e.myelinated = TRUE THEN t_refractory_um ELSE t_refractory_m

\* the refractory period get_block_summary passes to the axon entry e
Refractory(e, t_refractory_m, t_refractory_um) ==
    IF e.myelinated = TRUE THEN t_refractory_m ELSE t_refractory_um

\* the container after the loop of get_block_summary over axons_keys
RECURSIVE BlockLoop(_, _, _, _, _, _)
BlockLoop(f, axons_keys, AP_start, freq, t_refractory_m, t_refractory_um) ==
    IF axons_keys = <<>> THEN f
    ELSE LET axon == Head(axons_keys)
             e == Item(f, axon)
             f2 == [k \in 1..Len(f) |->
                      IF f[k].key = axon
                      THEN block_summary(e, AP_start, freq,
                               Refractory(e, t_refractory_m, t_refractory_um))
                      ELSE f[k]]
         IN  BlockLoop(f2, Tail(axons_keys), AP_start, freq,
                       t_refractory_m, t_refractory_um)

get_block_summary(f, AP_start, freq, t_refractory_m, t_refractory_um) ==
    LET r == get_axons_key(f, "all")
    IN  IF r.status # "ok" THEN [out |-> r, f |-> f]
        ELSE [out |-> OkNone,
              f |-> BlockLoop(f, r.val, AP_start, freq,
                              t_refractory_m, t_refractory_um)]

(***************************************************************************)
(* myelinated_results                                                      *)
(***************************************************************************)
\* one period of the section types along a myelinated fibre
SectionPattern ==
    <<"node", "MYSA", "FLUT", "STIN", "STIN", "STIN",
      "STIN", "STIN", "STIN", "FLUT", "MYSA">>

N_sec_type == 11

\* number of sections recorded in axon_path_type
NSections == 13

\* axon_path_type of a fibre whose first section is the one of rank shift
PathType(shift) ==
    [k \in 1..NSections |-> SectionPattern[((shift + k - 1) % 11) + 1]]

WarnGuard(n, len) == n > len

SeqIndex_nofirst(n, Nseg_per_sec) == ((n - 1) \div Nseg_per_sec) % N_sec_type

\* 0-based index into seq_types for the point n; Nseg_per_sec already + 1
SeqIndex(n, Nseg_per_sec) ==
    IF n = 0 THEN 0 ELSE ((n - 1) \div Nseg_per_sec) % N_sec_type

\* seq_types[k], k 0-based
ListGet(seq_types, k) ==
    IF k + 1 \in 1..Len(seq_types)
    THEN Ok(seq_types[k + 1])
    ELSE Raise("IndexError")

get_index_myelinated_sequence(m, n) ==
    IF m.rec = "nodes"
    THEN [out |-> Ok("node"), warns |-> <<>>]
    ELSE LET w == IF WarnGuard(n, m.nx) THEN <<"index not in axon">> ELSE <<>>
             Nseg_per_sec == m.Nseg_per_sec + 1
             seq_types == m.axon_path_type
         IN  [out |-> ListGet(seq_types, SeqIndex(n, Nseg_per_sec)),
              warns |-> w]

\* the loop of find_central_node_index from offset i on; probes counts the
\* calls of get_index_myelinated_sequence made so far
RECURSIVE CentralSearch(_, _, _, _, _)
CentralSearch(m, n_center, i, warns, probes) ==
    IF i >= n_center
    THEN [out |-> Ok(n_center),
          warns |-> Append(warns, "No node found in the axon"),
          probes |-> probes]
    ELSE LET up == get_index_myelinated_sequence(m, n_center + i)
             down == get_index_myelinated_sequence(m, n_center - i)
         IN  IF up.out.status # "ok"
             THEN [out |-> up.out, warns |-> warns \o up.warns,
                   probes |-> probes + 1]
             ELSE IF up.out.val = "node"
             THEN [out |-> Ok(n_center + i), warns |-> warns \o up.warns,
                   probes |-> probes + 1]
             ELSE IF down.out.status # "ok"
             THEN [out |-> down.out, warns |-> warns \o up.warns \o down.warns,
                   probes |-> probes + 2]
             ELSE IF down.out.val = "node"
             THEN [out |-> Ok(n_center - i),
                   warns |-> warns \o up.warns \o down.warns,
                   probes |-> probes + 2]
             ELSE CentralSearch(m, n_center, i + 1,
                                warns \o up.warns \o down.warns, probes + 2)

Center_up(nx) == (nx + 1) \div 2

Center(nx) == nx \div 2

find_central_node_index(m) ==
    LET n_center == Center(m.nx)
    IN  IF m.rec = "nodes"
        THEN [out |-> Ok(n_center), warns |-> <<>>, probes |-> 0]
        ELSE CentralSearch(m, n_center, 0, <<>>, 0)

(***************************************************************************)
(* Myelin properties.  Conductances are counted in units of 10 S/cm**2, so *)
(* that the value 1e10 S/cm**2 of the code is the integer Sentinel.  The   *)
(* cutoff frequency g / (2 pi c) is kept as the record of g, c and unit.   *)
(***************************************************************************)
Sentinel == 1000000000

Abs(a) == IF a >= 0 THEN a ELSE 0 - a

\* np.isclose(a, b) with rtol = 1e-5 (atol = 1e-8 is below one unit)
isclose(a, b) == Abs(a - b) <= Abs(b) \div 100000

\* conductivity in S/m**2 of the material the registry holds under name
RegistrySigma(name) == 300000

is_mat(x) == x.is_mat

load_material(name) == [is_mat |-> TRUE, name |-> name, sigma |-> RegistrySigma(name)]

\* convert(sigma, "S/m**2", "S/cm**2"), in units of 10 S/cm**2
ConvertSigma(sigma) == sigma \div 100000

\* to_nrv_unit(g / (2 pi c), "MHz"): a frequency in kHz
CutoffFrequency(g, c) == [g |-> g, c |-> c, unit |-> "kHz"]

IsSentinel_any(g) == TRUE

\* the mask I of get_myelin_properties at one entry
IsSentinel(g) == isclose(g, Sentinel)

MyelinGuard_off(m) == FALSE

MyelinGuard(m) == m.rec = "nodes"

\* endo_mat is None, or Some(material object), or Some(material name)
get_myelin_properties(m, l, endo_mat) ==
    IF MyelinGuard(m)
    THEN [out |-> OkNone,
          warns |-> <<"No myelin in the axon simulated, None returned">>,
          probes |-> 0,
          myl |-> [l EXCEPT !.loaded = <<>>]]
    ELSE LET g0 == l.ax_g
             byname == endo_mat # None /\ ~is_mat(endo_mat[1])
             mat == IF byname THEN load_material(endo_mat[1].name)
                    ELSE endo_mat[1]
             g == IF endo_mat # None
                  THEN [i \in 1..Len(g0) |->
                          IF IsSentinel(g0[i])
                          THEN g0[i] * 0 + ConvertSigma(mat.sigma)
                          ELSE g0[i]]
                  ELSE g0
             cm == l.ax_c
             f == [i \in 1..Len(g) |-> CutoffFrequency(g[i], cm[i])]
         IN  [out |-> Ok(<<g, cm, f>>),
              warns |-> <<>>,
              probes |-> 0,
              myl |-> [l EXCEPT !.g_mye = Some(g), !.c_mye = Some(cm),
                                !.f_mye = Some(f),
                                !.loaded = IF byname THEN <<endo_mat[1].name>>
                                           ELSE <<>>]]

(***************************************************************************)
(* Membrane capacitance.  A quantity m * 10^e is the pair <<m, e>> with m   *)
(* not a multiple of ten; a unit is the string of its characters.          *)
(***************************************************************************)
U_S_cm2 == <<"S", "/", "c", "m", "*", "*", "2">>

U_uF_cm2 == <<"u", "F", "/", "c", "m", "*", "*", "2">>

U_F_m2 == <<"F", "/", "m", "*", "*", "2">>

U_uF_m2 == <<"u", "F", "/", "m", "*", "*", "2">>

U_S_cm == <<"S", "/", "c", "m">>

U_uF_cm == <<"u", "F", "/", "c", "m">>

U_F_m == <<"F", "/", "m">>

U_uF_m == <<"u", "F", "/", "m">>

\* exponent of ten of a unit in the internal units (um, S, uF)
UnitExp(unit) ==
    CASE unit = U_S_cm2 -> -8
      [] unit = U_uF_cm2 -> -8
      [] unit = U_F_m2 -> -6
      [] unit = U_uF_m2 -> -12
      [] unit = U_S_cm -> -4
      [] unit = U_uF_cm -> -4
      [] unit = U_F_m -> 0
      [] unit = U_uF_m -> -6

RECURSIVE Normal(_)
Normal(q) ==
    IF q[1] = 0 THEN <<0, 0>>
    ELSE IF q[1] % 10 = 0 THEN Normal(<<q[1] \div 10, q[2] + 1>>)
    ELSE q

Mul(a, b) == Normal(<<a[1] * b[1], a[2] + b[2]>>)

\* convert(value, unitin, unitout)
convert(value, unitin, unitout) ==
    Normal(<<value[1], value[2] + UnitExp(unitin) - UnitExp(unitout)>>)

\* from_nrv_unit(value, "cm"): a length in um, given in cm
from_nrv_unit_cm(value) == Normal(<<value[1], value[2] - 4>>)

\* surface capacitance in uF/cm**2 of a membrane model
membrane_capacitance_from_model(model) ==
    CASE model = "HH" -> <<1, 0>>
      [] model = "Sundt" -> <<14, -1>>
      [] model = "Tigerholm" -> <<7, -1>>
      [] model = "MRG" -> <<2, 0>>
      [] model = "Gaines_motor" -> <<3, 0>>
      [] OTHER -> <<1, 0>>

SurfaceUnit_never(unit) == FALSE

\* "2" in unit
SurfaceUnit(unit) == \E k \in 1..Len(unit) : unit[k] = "2"

get_membrane_capacitance(p, unit, mem_th) ==
    LET u_c_mem == membrane_capacitance_from_model(p.unmyelinated_model)
        m_c_mem == membrane_capacitance_from_model(p.myelinated_model)
    IN  IF SurfaceUnit(unit)
        THEN Ok(<<convert(u_c_mem, U_S_cm2, unit),
                  convert(m_c_mem, U_S_cm2, unit)>>)
        ELSE LET u2 == Mul(u_c_mem, from_nrv_unit_cm(mem_th))
                 m2 == Mul(m_c_mem, from_nrv_unit_cm(mem_th))
             IN  Ok(<<convert(u2, U_S_cm, unit), convert(m2, U_S_cm, unit)>>)

(***************************************************************************)
(* Complex admittance.  The admittance of an axon is kept as the record of *)
(* what compute_complex_admitance is given, with the factor of the unit    *)
(* conversion.                                                             *)
(***************************************************************************)
OverEps_none(g) == IF g.status = "none" THEN OkNone ELSE g

\* g / (2 * np.pi * eps): the division of None by an array is a TypeError
OverEps(g) == IF g.status = "none" THEN Raise("TypeError") ELSE g

\* (self.axons_type * (m_c - u_c)) + u_c, for each axon in key order
Eps(f, a_keys, u_c, m_c) ==
    [k \in 1..Len(a_keys) |->
        IF Item(f, a_keys[k]).myelinated THEN m_c ELSE u_c]

get_membrane_complexe_admitance(f, p, freq, unit, mem_th) ==
    LET cap == get_membrane_capacitance(p, U_uF_cm2, mem_th)
        a_keys == get_axons_key(f, "all").val
        eps == Eps(f, a_keys, cap.val[1], cap.val[2])
        g == get_membrane_conductivity(f)
        f_mem == OverEps(g)
        scale == IF SurfaceUnit(unit)
                 THEN convert(<<1, 0>>, U_S_cm2, unit)
                 ELSE convert(from_nrv_unit_cm(mem_th), U_S_cm, unit)
    IN  IF f_mem.status # "ok" THEN f_mem
        ELSE Ok([k \in 1..Len(g.val) |->
                    [f |-> freq, g |-> g.val[k], eps |-> eps[k],
                     scale |-> scale]])

(***************************************************************************)
(* optim_results.findbestpart.  Positions are vectors of floats of integer *)
(* value; position[i][j + 1] is self["position" + str(i)][j].              *)
(***************************************************************************)
\* the recursion of findbestpart gives up below this number of decimals
DecimalsFloor == -15

RECURSIVE Pow10(_)
Pow10(k) == IF k = 0 THEN 1 ELSE 10 * Pow10(k - 1)

\* number of decimal digits of a >= 0
RECURSIVE NDigits(_)
NDigits(a) == IF a < 10 THEN 1 ELSE 1 + NDigits(a \div 10)

\* np.rint(a / m) * m for a >= 0: to the nearest multiple of m, a tie to the
\* even one
HalfEven(a, m) ==
    LET q == a \div m
        r == a % m
    IN  IF 2 * r < m THEN q * m
        ELSE IF 2 * r > m THEN (q + 1) * m
        ELSE IF q % 2 = 0 THEN q * m ELSE (q + 1) * m

\* np.around(v, decimals) of a float of integer value: unchanged for
\* decimals >= 0; a value of fewer than -decimals digits rounds to 0
around(v, decimals) ==
    IF decimals >= 0 THEN v
    ELSE IF 0 - decimals > NDigits(Abs(v)) THEN 0
    ELSE IF v >= 0 THEN HalfEven(v, Pow10(0 - decimals))
    ELSE 0 - HalfEven(0 - v, Pow10(0 - decimals))

\* all(np.around(pos[j], decimals) == np.around(bestpos, decimals))
AllClose(pos_j, bestpos, decimals) ==
    \A k \in 1..Len(bestpos) :
        around(pos_j[k], decimals) = around(bestpos[k], decimals)

RECURSIVE Scan_particles_first(_, _, _, _)
Scan_particles_first(o, decimals, lim_it, i) ==
    IF i > o.n_particles THEN 0
    ELSE LET J == {j \in 0..lim_it - 1 :
                      AllClose(o.position[i][j + 1], o.best_position, decimals)}
         IN  IF J # {} THEN i
             ELSE Scan_particles_first(o, decimals, lim_it, i + 1)

\* the two nested loops of findbestpart from iteration j, particle i on: the
\* particle returned, 0 when the loops end without a return
RECURSIVE Scan(_, _, _, _, _)
Scan(o, decimals, lim_it, j, i) ==
    IF j >= lim_it THEN 0
    ELSE IF i > o.n_particles THEN Scan(o, decimals, lim_it, j + 1, 1)
    ELSE IF AllClose(o.position[i][j + 1], o.best_position, decimals) THEN i
    ELSE Scan(o, decimals, lim_it, j, i + 1)

FirstMatch_particle_major(o, decimals, lim_it) ==
    Scan_particles_first(o, decimals, lim_it, 1)

FirstMatch(o, decimals, lim_it) == Scan(o, decimals, lim_it, 0, 1)

\* one activation of findbestpart(decimals, lim_it): the state of the call
\* after it has returned or has made the recursive call
findbestpart(o) ==
    IF o.decimals < DecimalsFloor
    THEN [o EXCEPT !.pc = "done", !.result = 0 - 1,
                   !.warns = Append(@, "Best results not founded returning -1")]
    ELSE LET lim_it == IF o.lim_it = None THEN o.nit ELSE o.lim_it[1]
             i == FirstMatch(o, o.decimals, lim_it)
         IN  IF i # 0
             THEN [o EXCEPT !.pc = "done", !.result = i, !.lim_it = Some(lim_it)]
             ELSE [o EXCEPT !.decimals = @ - 1, !.lim_it = Some(lim_it),
                            !.passes = @ + 1]

(***************************************************************************)
(* Plots.  A rendering call on the axes is a record of the log axes; the   *)
(* colour and opacity plot_block_summary derives from is_blocked and       *)
(* n_onset, which block_summary computes, are kept as "by block state".    *)
(***************************************************************************)
\* MCH.do_master_only_work() in the process p
do_master_only_work(p) == p.master

PlotGate_open(p) == TRUE

\* the test that guards the body of the two plot methods
PlotGate(p) == do_master_only_work(p)

Draw(call, key, color, alpha) ==
    [call |-> call, key |-> key, color |-> color, alpha |-> alpha]

Contour == Draw("add_patch", <<>>, "contour_color", "1")

\* the tail of both plot methods: extra_stim, axon numbers, axis limits
PlotTail(f, p, num) ==
    (IF p.extra_stim THEN <<Draw("extra_stim.plot", <<>>, "gold", "1")>> ELSE <<>>)
    \o (IF num
        THEN [k \in 1..NAxonEntries(f) |->
                 Draw("text", <<Digits[k]>>, "none", "1")]
        ELSE <<>>)
    \o <<Draw("set_xlim", <<>>, "none", "1"), Draw("set_ylim", <<>>, "none", "1")>>

\* fascicle_results.get_axons: is_recruited is asked once per axon key
get_axons(f) ==
    LET r == get_axons_key(f, "all")
    IN  IF r.status # "ok" THEN [out |-> r, asked |-> 0]
        ELSE [out |-> Ok([k \in 1..Len(r.val) |->
                            [key |-> r.val[k],
                             myelinated |-> Item(f, r.val[k]).myelinated,
                             recruited |-> is_recruited(Item(f, r.val[k]))]]),
              asked |-> Len(r.val)]

plot_recruited_fibers(f, pr, p, num) ==
    IF PlotGate(pr)
    THEN LET a == get_axons(f)
         IN  IF a.out.status # "ok"
             THEN [out |-> a.out, axes |-> <<Contour>>, probes |-> a.asked,
                   warns |-> <<>>, f |-> f]
             ELSE [out |-> OkNone,
                   axes |-> <<Contour>>
                      \o [k \in 1..Len(a.out.val) |->
                            Draw("add_patch", a.out.val[k].key,
                                 IF a.out.val[k].myelinated THEN "myel_color"
                                 ELSE "unmyel_color",
                                 IF a.out.val[k].recruited THEN "1" ELSE "0.1")]
                      \o PlotTail(f, p, num),
                   probes |-> a.asked, warns |-> <<>>, f |-> f]
    ELSE [out |-> OkNone, axes |-> <<>>, probes |-> 0, warns |-> <<>>, f |-> f]

\* the container after the loop of get_block_summary_axons over axons_keys
RECURSIVE BlockAxonsLoop(_, _, _, _, _)
BlockAxonsLoop(f, axons_keys, AP_start, freq, t_refractory) ==
    IF axons_keys = <<>> THEN f
    ELSE LET axon == Head(axons_keys)
             f2 == [k \in 1..Len(f) |->
                      IF f[k].key = axon
                      THEN block_summary(f[k], AP_start, freq, t_refractory)
                      ELSE f[k]]
         IN  BlockAxonsLoop(f2, Tail(axons_keys), AP_start, freq, t_refractory)

get_block_summary_axons(f, AP_start, freq, t_refractory) ==
    LET r == get_axons_key(f, "all")
    IN  IF r.status # "ok" THEN [out |-> r, f |-> f]
        ELSE [out |-> Ok(r.val),
              f |-> BlockAxonsLoop(f, r.val, AP_start, freq, t_refractory)]

plot_block_summary(f, pr, p, AP_start, freq, t_refractory, num) ==
    IF PlotGate(pr)
    THEN LET a == get_block_summary_axons(f, AP_start, freq, t_refractory)
         IN  IF a.out.status # "ok"
             THEN [out |-> a.out, axes |-> <<Contour>>, probes |-> 0,
                   warns |-> <<>>, f |-> a.f]
             ELSE IF a.out.val = <<>>
             THEN \* np.max of an empty n_onset
                  [out |-> Raise("ValueError"), axes |-> <<Contour>>,
                   probes |-> 0, warns |-> <<>>, f |-> a.f]
             ELSE [out |-> OkNone,
                   axes |-> <<Contour>>
                      \o [k \in 1..Len(a.out.val) |->
                            Draw("add_patch", a.out.val[k],
                                 "by block state", "by block state")]
                      \o PlotTail(f, p, num),
                   probes |-> 0, warns |-> <<>>, f |-> a.f]
    ELSE [out |-> OkNone, axes |-> <<>>, probes |-> 0, warns |-> <<>>, f |-> f]

(***************************************************************************)
(* State machine.  ret is the outcome of the call in progress, NoCall when *)
(* the caller is idle; warns are the warnings the call logged and probes   *)
(* the classifications it asked for.                                       *)
(***************************************************************************)
NoArgs == [ax_type |-> "all", normalize |-> FALSE, diam |-> 0]

NoCall ==
    [op |-> "none", args |-> NoArgs, status |-> "ok", val |-> None,
     warns |-> <<>>, probes |-> 0]

Called(op, args, r) ==
    [op |-> op, args |-> args, status |-> r.status, val |-> r.val,
     warns |-> <<>>, probes |-> 0]

CalledW(op, args, r) ==
    [op |-> op, args |-> args, status |-> r.out.status, val |-> r.out.val,
     warns |-> r.warns, probes |-> r.probes]

FArgs(t, nz, d) == [ax_type |-> t, normalize |-> nz, diam |-> d]

Idle == ret.op = "none"

NoMye == [rec |-> "nodes", nx |-> 0, Nseg_per_sec |-> 1, axon_path_type |-> <<>>]

\* no myelin property stored, no axon generated
NoMyl == [ax_g |-> <<>>, ax_c |-> <<>>, g_mye |-> None, c_mye |-> None,
          f_mye |-> None, loaded |-> <<>>]

\* membrane models of the two typed-parameter groups of the fascicle, and
\* whether its extra_stim is an object (TRUE) or None
NoPar == [unmyelinated_model |-> "none", myelinated_model |-> "none",
          extra_stim |-> FALSE]

\* the process is the master, nothing is drawn on the axes
NoProc == [master |-> TRUE, axes |-> <<>>]

\* no optimisation result
NoOpt == [pc |-> "none", n_particles |-> 0, nit |-> 0, position |-> <<>>,
          best_position |-> <<>>, decimals |-> 0, lim_it |-> None, passes |-> 0,
          result |-> 0, warns |-> <<>>]

Init ==
    /\ fasc = <<>>
    /\ ret = NoCall
    /\ mye = NoMye
    /\ myl = NoMyl
    /\ par = NoPar
    /\ proc = NoProc
    /\ opt = NoOpt

\* fasc["axon" + str(k)] = axon result, for the next axon index k, during the
\* set-up of the fascicle result
SetAxon(tags, recruitments, diameters, samples) ==
    /\ Idle
    /\ Len(fasc) < MaxKeys
    /\ NAxonEntries(fasc) < MaxAxons
    /\ \E m \in tags, r \in recruitments, d \in diameters, g \in samples :
          LET key == AxonKey(NAxonEntries(fasc))
          IN  /\ key \in AxonKeys
              /\ ~HasKey(fasc, key)
              /\ fasc' = Append(fasc, AxonEntry(key, m, r, d, g))
    /\ UNCHANGED <<ret, mye, myl, par, proc, opt>>

AddAxon == SetAxon(BOOLEAN, BOOLEAN, Diameters, {Some(1)})

\* fasc[key] = value of a field that is not an axon result
AddField ==
    /\ Idle
    /\ Len(fasc) < MaxKeys
    /\ \E key \in FieldKeys :
          /\ ~HasKey(fasc, key)
          /\ fasc' = Append(fasc, FieldEntry(key))
    /\ UNCHANGED <<ret, mye, myl, par, proc, opt>>

\* the caller takes the outcome of the call and is idle again
Return ==
    /\ ~Idle
    /\ ret' = NoCall
    /\ UNCHANGED <<fasc, mye, myl, par, proc, opt>>

Call_get_axons_key ==
    /\ Idle
    /\ \E t \in AxTypes :
          ret' = Called("get_axons_key", FArgs(t, FALSE, 0),
                        get_axons_key(fasc, t))
    /\ UNCHANGED <<fasc, mye, myl, par, proc, opt>>

Call_get_n_ax ==
    /\ Idle
    /\ \E t \in AxTypes :
          ret' = Called("get_n_ax", FArgs(t, FALSE, 0), get_n_ax(fasc, t))
    /\ UNCHANGED <<fasc, mye, myl, par, proc, opt>>

Call_get_recruited_axons ==
    /\ Idle
    /\ \E t \in AxTypes, nz \in BOOLEAN :
          ret' = Called("get_recruited_axons", FArgs(t, nz, 0),
                        get_recruited_axons(fasc, t, nz))
    /\ UNCHANGED <<fasc, mye, myl, par, proc, opt>>

Call_get_recruited_axons_greater_than ==
    /\ Idle
    /\ \E t \in AxTypes, nz \in BOOLEAN, d \in DiamArgs :
          ret' = Called("get_recruited_axons_greater_than", FArgs(t, nz, d),
                        get_recruited_axons_greater_than(fasc, d, t, nz))
    /\ UNCHANGED <<fasc, mye, myl, par, proc, opt>>

Call_get_recruited_axons_lesser_than ==
    /\ Idle
    /\ \E t \in AxTypes, nz \in BOOLEAN, d \in DiamArgs :
          ret' = Called("get_recruited_axons_lesser_than", FArgs(t, nz, d),
                        get_recruited_axons_lesser_than(fasc, d, t, nz))
    /\ UNCHANGED <<fasc, mye, myl, par, proc, opt>>

Next ==
    \/ AddAxon
    \/ AddField
    \/ Return
    \/ Call_get_axons_key
    \/ Call_get_n_ax
    \/ Call_get_recruited_axons
    \/ Call_get_recruited_axons_greater_than
    \/ Call_get_recruited_axons_lesser_than

Spec == Init /\ [][Next]_vars

(***************************************************************************)
(* Fascicle result queried for conductivity, and for block summary         *)
(***************************************************************************)
APStarts == {1}

Freqs == {None, Some(10)}

Refractories == {1, 2}

\* the axon result carries a conductivity sample
AddAxonSample == SetAxon(BOOLEAN, {FALSE}, {5}, Samples)

\* the axon result carries its type tag
AddAxonTagged == SetAxon(BOOLEAN, {FALSE}, {5}, {Some(1)})

Call_get_membrane_conductivity ==
    /\ Idle
    /\ ret' = Called("get_membrane_conductivity", NoArgs,
                     get_membrane_conductivity(fasc))
    /\ UNCHANGED <<fasc, mye, myl, par, proc, opt>>

Call_get_block_summary ==
    /\ Idle
    /\ \A k \in 1..Len(fasc) : Len(fasc[k].bs) < MaxBlockCalls
    /\ \E a \in APStarts, fr \in Freqs, tm \in Refractories, tu \in Refractories :
          LET r == get_block_summary(fasc, a, fr, tm, tu)
          IN  /\ ret' = Called("get_block_summary",
                               [AP_start |-> a, freq |-> fr,
                                t_refractory_m |-> tm, t_refractory_um |-> tu],
                               r.out)
              /\ fasc' = r.f
    /\ UNCHANGED <<mye, myl, par, proc, opt>>

NextCond ==
    \/ AddAxonSample
    \/ AddField
    \/ Return
    \/ Call_get_membrane_conductivity

SpecCond == Init /\ [][NextCond]_vars

NextBlock ==
    \/ AddAxonTagged
    \/ AddField
    \/ Return
    \/ Call_get_block_summary

SpecBlock == Init /\ [][NextBlock]_vars

(***************************************************************************)
(* Myelinated result, as produced by the simulation of one axon            *)
(***************************************************************************)
RecModes == {"nodes", "all"}

MyeResults ==
    {[rec |-> rc, nx |-> nx, Nseg_per_sec |-> ns, axon_path_type |-> PathType(sh)] :
        rc \in RecModes, nx \in 1..MaxXrec, ns \in 1..MaxNseg, sh \in 0..10}

InitMye ==
    /\ fasc = <<>>
    /\ ret = NoCall
    /\ mye \in MyeResults
    /\ myl = NoMyl
    /\ par = NoPar
    /\ proc = NoProc
    /\ opt = NoOpt

Call_get_index_myelinated_sequence ==
    /\ Idle
    /\ \E n \in (-2)..(mye.nx + 2) :
          LET r == get_index_myelinated_sequence(mye, n)
          IN  ret' = CalledW("get_index_myelinated_sequence", [n |-> n],
                             [out |-> r.out, warns |-> r.warns, probes |-> 0])
    /\ UNCHANGED <<fasc, mye, myl, par, proc, opt>>

Call_find_central_node_index ==
    /\ Idle
    /\ ret' = CalledW("find_central_node_index", NoArgs,
                      find_central_node_index(mye))
    /\ UNCHANGED <<fasc, mye, myl, par, proc, opt>>

NextMye ==
    \/ Return
    \/ Call_get_index_myelinated_sequence
    \/ Call_find_central_node_index

SpecMye == InitMye /\ [][NextMye]_vars

(***************************************************************************)
(* Myelinated result queried for its myelin properties                     *)
(***************************************************************************)
\* values of the myelin conductance of a generated axon
Conductances == {2, 5, Sentinel}

Capacitances == {1, 3}

SeqsOf(S, n) == UNION {[1..k -> S] : k \in 1..n}

\* the arrays get_myelin_conductance and get_myelin_capacitance of the
\* generated axon return, nothing stored yet
MylResults ==
    {[NoMyl EXCEPT !.ax_g = g, !.ax_c = cm] :
        g \in SeqsOf(Conductances, MaxMyelin),
        cm \in SeqsOf(Capacitances, MaxMyelin)}

EndoMats ==
    {None,
     Some([is_mat |-> TRUE, name |-> "custom", sigma |-> 700000]),
     Some([is_mat |-> FALSE, name |-> "endoneurium_ranck", sigma |-> 0])}

InitMyelin ==
    /\ fasc = <<>>
    /\ ret = NoCall
    /\ mye \in {m \in MyeResults :
                   m.nx = 1 /\ m.Nseg_per_sec = 1
                   /\ m.axon_path_type = PathType(0)}
    /\ myl \in {l \in MylResults : Len(l.ax_g) = Len(l.ax_c)}
    /\ par = NoPar
    /\ proc = NoProc
    /\ opt = NoOpt

Call_get_myelin_properties ==
    /\ Idle
    /\ \E e \in EndoMats :
          LET r == get_myelin_properties(mye, myl, e)
          IN  /\ ret' = CalledW("get_myelin_properties", [endo_mat |-> e], r)
              /\ myl' = r.myl
    /\ UNCHANGED <<fasc, mye, par, proc, opt>>

NextMyelin ==
    \/ Return
    \/ Call_get_myelin_properties

SpecMyelin == InitMyelin /\ [][NextMyelin]_vars

(***************************************************************************)
(* Fascicle result queried for its membrane capacitance                    *)
(***************************************************************************)
Pars ==
    {[unmyelinated_model |-> u, myelinated_model |-> m, extra_stim |-> FALSE] :
        u \in {"HH", "Sundt", "Tigerholm"}, m \in {"MRG", "Gaines_motor"}}

CapUnits == {U_uF_cm2, U_F_m2, U_uF_m2, U_uF_cm, U_F_m, U_uF_m}

\* membrane thickness in um: 7 nm (the default), 5 nm, 10 nm
MemThs == {<<7, -3>>, <<5, -3>>, <<1, -2>>}

InitCap ==
    /\ fasc = <<>>
    /\ ret = NoCall
    /\ mye = NoMye
    /\ myl = NoMyl
    /\ par \in Pars
    /\ proc = NoProc
    /\ opt = NoOpt

Call_get_membrane_capacitance ==
    /\ Idle
    /\ \E unit \in CapUnits, th \in MemThs :
          ret' = Called("get_membrane_capacitance",
                        [unit |-> unit, mem_th |-> th],
                        get_membrane_capacitance(par, unit, th))
    /\ UNCHANGED <<fasc, mye, myl, par, proc, opt>>

NextCap ==
    \/ Return
    \/ Call_get_membrane_capacitance

SpecCap == InitCap /\ [][NextCap]_vars

(***************************************************************************)
(* Fascicle result plotted by one process of a multi-process run; every    *)
(* call is given fresh axes                                                *)
(***************************************************************************)
InitPlot ==
    /\ fasc = <<>>
    /\ ret = NoCall
    /\ mye = NoMye
    /\ myl = NoMyl
    /\ par \in {[NoPar EXCEPT !.extra_stim = b] : b \in BOOLEAN}
    /\ proc \in {[NoProc EXCEPT !.master = b] : b \in BOOLEAN}
    /\ opt = NoOpt

\* the axon result carries its type tag and its recruitment
AddAxonRecruited == SetAxon(BOOLEAN, BOOLEAN, {5}, {Some(1)})

Call_plot_recruited_fibers ==
    /\ Idle
    /\ \E num \in BOOLEAN :
          LET r == plot_recruited_fibers(fasc, proc, par, num)
          IN  /\ ret' = CalledW("plot_recruited_fibers", [num |-> num], r)
              /\ proc' = [proc EXCEPT !.axes = r.axes]
              /\ fasc' = r.f
    /\ UNCHANGED <<mye, myl, par, opt>>

Call_plot_block_summary ==
    /\ Idle
    /\ \A k \in 1..Len(fasc) : Len(fasc[k].bs) < MaxBlockCalls
    /\ \E a \in APStarts, fr \in Freqs, t \in Refractories, num \in BOOLEAN :
          LET r == plot_block_summary(fasc, proc, par, a, fr, t, num)
          IN  /\ ret' = CalledW("plot_block_summary",
                                [AP_start |-> a, freq |-> fr,
                                 t_refractory |-> t, num |-> num], r)
              /\ proc' = [proc EXCEPT !.axes = r.axes]
              /\ fasc' = r.f
    /\ UNCHANGED <<mye, myl, par, opt>>

NextPlot ==
    \/ AddAxonRecruited
    \/ AddField
    \/ Return
    \/ Call_plot_recruited_fibers
    \/ Call_plot_block_summary

SpecPlot == InitPlot /\ [][NextPlot]_vars

(***************************************************************************)
(* Fascicle result queried for its complex admittance                      *)
(***************************************************************************)
AdmUnits == {U_S_cm2, U_S_cm}

InitAdm ==
    /\ fasc = <<>>
    /\ ret = NoCall
    /\ mye = NoMye
    /\ myl = NoMyl
    /\ par \in {q \in Pars : q.unmyelinated_model = "HH"}
    /\ proc = NoProc
    /\ opt = NoOpt

Call_get_membrane_complexe_admitance ==
    /\ Idle
    /\ \E u \in AdmUnits :
          ret' = Called("get_membrane_complexe_admitance",
                        [f |-> 1, unit |-> u, mem_th |-> <<7, -3>>],
                        get_membrane_complexe_admitance(fasc, par, 1, u, <<7, -3>>))
    /\ UNCHANGED <<fasc, mye, myl, par, proc, opt>>

NextAdm ==
    \/ AddAxonSample
    \/ AddField
    \/ Return
    \/ Call_get_membrane_complexe_admitance

SpecAdm == InitAdm /\ [][NextAdm]_vars

(***************************************************************************)
(* Optimisation result searched for its best particle                      *)
(***************************************************************************)
SwarmSizes == {0, 1, 2}

Vectors == {<<4, 15>>, <<4, 25>>, <<14, 25>>}

DecimalsArgs == {10, 0, 0 - 14}

\* a loaded optimisation result: nit positions for each particle
OptResults ==
    {[NoOpt EXCEPT !.n_particles = n, !.nit = nit, !.position = pos,
                   !.best_position = b] :
        n \in SwarmSizes, nit \in {MaxIt}, b \in Vectors,
        pos \in UNION {[1..m -> [1..MaxIt -> Vectors]] : m \in SwarmSizes}}

InitOpt ==
    /\ fasc = <<>>
    /\ ret = NoCall
    /\ mye = NoMye
    /\ myl = NoMyl
    /\ par = NoPar
    /\ proc = NoProc
    /\ opt \in {o \in OptResults : Len(o.position) = o.n_particles}

\* findbestpart(decimals, lim_it) is called, lim_it None or at most nit
Call_findbestpart ==
    /\ opt.pc = "none"
    /\ \E d \in DecimalsArgs,
          l \in {None} \cup {Some(k) : k \in 0..opt.nit} :
          opt' = [opt EXCEPT !.pc = "call", !.decimals = d, !.lim_it = l,
                             !.passes = 0, !.result = 0, !.warns = <<>>]
    /\ UNCHANGED <<fasc, ret, mye, myl, par, proc>>

\* the current activation runs to its return or to its recursive call
Pass_findbestpart ==
    /\ opt.pc = "call"
    /\ opt' = findbestpart(opt)
    /\ UNCHANGED <<fasc, ret, mye, myl, par, proc>>

Return_findbestpart ==
    /\ opt.pc = "done"
    /\ opt' = [opt EXCEPT !.pc = "none", !.decimals = 0, !.lim_it = None,
                          !.passes = 0, !.result = 0, !.warns = <<>>]
    /\ UNCHANGED <<fasc, ret, mye, myl, par, proc>>

NextOpt ==
    \/ Call_findbestpart
    \/ Pass_findbestpart
    \/ Return_findbestpart

SpecOpt == InitOpt /\ [][NextOpt]_vars

\* a call that was made runs on
SpecOptFair == SpecOpt /\ WF_vars(Pass_findbestpart)

(***************************************************************************)
(* Properties                                                              *)
(***************************************************************************)
\* positions of the axon entries of the container selected by ax_type
Filtered(t) ==
    {k \in 1..Len(fasc) :
        /\ fasc[k].kind = "axon"
        /\ \/ t = "all"
           \/ t = "myelinated" /\ fasc[k].myelinated
           \/ t = "unmyelinated" /\ ~fasc[k].myelinated}

Range(q) == {q[k] : k \in 1..Len(q)}

\* q lists, in container order and without repetition, the keys at positions P
ListsInOrder(q, P) ==
    /\ Len(q) = Cardinality(P)
    /\ \A j \in 1..Len(q) : \E k \in P : fasc[k].key = q[j]
    /\ \A i, j \in 1..Len(q) :
          i < j => \E a, b \in P :
                      a < b /\ fasc[a].key = q[i] /\ fasc[b].key = q[j]

RecruitOps ==
    {"get_recruited_axons", "get_recruited_axons_greater_than",
     "get_recruited_axons_lesser_than"}

\* C1: get_axons_key, get_n_ax and the get_recruited_axons* methods end in an
\* error, and return no value, for every ax_type other than "all",
\* "myelinated" and "unmyelinated".
C1_UnrecognizedTypeFails ==
    (/\ ret.op \in {"get_axons_key", "get_n_ax"} \cup RecruitOps
     /\ ret.args.ax_type \notin {"all", "myelinated", "unmyelinated"})
    => ret.status = "error"

C1_Witness ==
    /\ ret.op = "get_recruited_axons"
    /\ ret.args.ax_type = "Myelinated"
    /\ ret.status = "error"
    /\ Filtered("myelinated") # {}

HoldsAxon(s) ==
    \E k \in 1..Len(s) :
        /\ k + 3 <= Len(s)
        /\ s[k] = "a" /\ s[k + 1] = "x" /\ s[k + 2] = "o" /\ s[k + 3] = "n"

HoldsDigit(s) ==
    \E k \in 1..Len(s) :
        s[k] \in {"0", "1", "2", "3", "4", "5", "6", "7", "8", "9"}

\* C3: get_axons_key("all") returns, in container order, exactly the keys
\* holding "axon" and a digit; "axons_diameter" is never returned and the key
\* of every axon entry is.
C3_AllKeysFilter ==
    (ret.op = "get_axons_key" /\ ret.args.ax_type = "all")
    => /\ ret.status = "ok"
       /\ ListsInOrder(ret.val,
             {k \in 1..Len(fasc) :
                 HoldsAxon(fasc[k].key) /\ HoldsDigit(fasc[k].key)})
       /\ K_axons_diameter \notin Range(ret.val)
       /\ \A k \in 1..Len(fasc) :
             fasc[k].kind = "axon" => fasc[k].key \in Range(ret.val)

C3_Witness ==
    /\ ret.op = "get_axons_key"
    /\ ret.args.ax_type = "all"
    /\ Len(fasc) = 3
    /\ fasc[1].key = K_axons_diameter
    /\ fasc[2].key = AxonKey(0)
    /\ fasc[3].key = K_rec1
    /\ ret.val = <<AxonKey(0)>>

Recruited(P) == {k \in P : fasc[k].recruited}

\* C4: for a recognized ax_type with at least one filtered axon,
\* get_recruited_axons returns with normalize the ratio of the recruited
\* filtered axons to the filtered axons, which lies in [0,1], and without
\* normalize the number of recruited filtered axons, between 0 and get_n_ax.
C4_RecruitedRatio ==
    (/\ ret.op = "get_recruited_axons"
     /\ ret.args.ax_type \in {"all", "myelinated", "unmyelinated"}
     /\ Filtered(ret.args.ax_type) # {})
    => LET P == Filtered(ret.args.ax_type)
           n == get_n_ax(fasc, ret.args.ax_type)
       IN  /\ ret.status = "ok"
           /\ n.status = "ok"
           /\ IF ret.args.normalize
              THEN /\ ret.val = <<Cardinality(Recruited(P)), Cardinality(P)>>
                   /\ 0 <= ret.val[1] /\ ret.val[1] <= ret.val[2]
                   /\ ret.val[2] > 0
              ELSE /\ ret.val = Cardinality(Recruited(P))
                   /\ 0 <= ret.val /\ ret.val <= n.val

C4_Witness ==
    /\ ret.op = "get_recruited_axons"
    /\ ret.args.ax_type = "all"
    /\ ret.args.normalize
    /\ ret.status = "ok"
    /\ ret.val = <<1, 2>>
    /\ Len(fasc) = 3

\* the fascicle of the example: diameters 3, 5, 7, 9, recruitment T, F, T, T
ExampleFascicle ==
    <<AxonEntry(AxonKey(0), TRUE, TRUE, 3, Some(1)),
      AxonEntry(AxonKey(1), FALSE, FALSE, 5, Some(1)),
      AxonEntry(AxonKey(2), TRUE, TRUE, 7, Some(1)),
      AxonEntry(AxonKey(3), FALSE, TRUE, 9, Some(1))>>

\* what the two methods return on the example for diam = 5
ExampleOutcomes ==
    <<get_recruited_axons_greater_than(ExampleFascicle, 5, "all", TRUE),
      get_recruited_axons_lesser_than(ExampleFascicle, 5, "all", TRUE),
      get_recruited_axons_greater_than(ExampleFascicle, 5, "all", FALSE),
      get_recruited_axons_lesser_than(ExampleFascicle, 5, "all", FALSE)>>

\* C5: get_recruited_axons_greater_than / _lesser_than count the recruited
\* filtered axons of diameter strictly above / below diam (an axon of diameter
\* diam is counted by neither), and with normalize divide by the number of
\* filtered axons satisfying the same diameter test; the example fascicle
\* gives 2 of 2 and 1 of 1 for diam = 5.
C5_DiameterStratified ==
    /\ ExampleOutcomes = <<Ok(<<2, 2>>), Ok(<<1, 1>>), Ok(2), Ok(1)>>
    /\ (/\ ret.op \in {"get_recruited_axons_greater_than",
                       "get_recruited_axons_lesser_than"}
        /\ ret.args.ax_type \in {"all", "myelinated", "unmyelinated"})
       => LET F == Filtered(ret.args.ax_type)
              P == IF ret.op = "get_recruited_axons_greater_than"
                   THEN {k \in F : fasc[k].diameter > ret.args.diam}
                   ELSE {k \in F : fasc[k].diameter < ret.args.diam}
          IN  IF ret.args.normalize
              THEN P # {} =>
                      /\ ret.status = "ok"
                      /\ ret.val = <<Cardinality(Recruited(P)), Cardinality(P)>>
              ELSE /\ ret.status = "ok"
                   /\ ret.val = Cardinality(Recruited(P))

C5_Witness ==
    /\ ret.op = "get_recruited_axons_greater_than"
    /\ ret.args.ax_type = "all"
    /\ ret.args.normalize
    /\ ret.status = "ok"
    /\ ret.val = <<1, 1>>
    /\ \E k \in 1..Len(fasc) :
          /\ fasc[k].kind = "axon"
          /\ fasc[k].diameter = ret.args.diam
          /\ fasc[k].recruited

\* C6: fascicle_results.get_membrane_conductivity returns None as soon as the
\* sample of one axon, at any position in key order, is None, and otherwise
\* one value per axon key, in key order.
C6_ConductivityFailFast ==
    (ret.op = "get_membrane_conductivity")
    => LET A == Filtered("all")
       IN  IF \E k \in A : fasc[k].g = <<>>
           THEN ret.status = "none"
           ELSE /\ ret.status = "ok"
                /\ Len(ret.val) = Cardinality(A)
                /\ \A k \in A :
                      ret.val[Cardinality({j \in A : j <= k})] = fasc[k].g[1]

C6_Witness ==
    /\ ret.op = "get_membrane_conductivity"
    /\ ret.status = "none"
    /\ Len(fasc) = 3
    /\ fasc[1].kind = "axon" /\ fasc[1].g = <<2>>
    /\ fasc[2].kind = "field"
    /\ fasc[3].kind = "axon" /\ fasc[3].g = <<>>

\* C7: a call of get_block_summary invokes block_summary exactly once on every
\* axon entry, with its AP_start and freq and with t_refractory_m for a
\* myelinated axon and t_refractory_um for any other; it returns None, changes
\* no other value and keeps the keys of the container.
C7_BlockSummaryDrivesEveryAxon ==
    [][(Idle /\ ret'.op = "get_block_summary")
       => /\ ret'.status = "none"
          /\ keys(fasc') = keys(fasc)
          /\ \A k \in 1..Len(fasc) :
                IF fasc[k].kind = "axon"
                THEN fasc'[k] =
                        [fasc[k] EXCEPT !.bs =
                            Append(@, <<ret'.args.AP_start, ret'.args.freq,
                                        IF fasc[k].myelinated
                                        THEN ret'.args.t_refractory_m
                                        ELSE ret'.args.t_refractory_um>>)]
                ELSE fasc'[k] = fasc[k]]_vars

C7_Witness ==
    /\ ret.op = "get_block_summary"
    /\ ret.args.t_refractory_m = 2
    /\ ret.args.t_refractory_um = 1
    /\ Len(fasc) = 3
    /\ \E k \in 1..3 : fasc[k].kind = "field"
    /\ \E k \in 1..3 :
          /\ fasc[k].kind = "axon" /\ fasc[k].myelinated
          /\ fasc[k].bs = <<<<1, <<10>>, 2>>>>
    /\ \E k \in 1..3 :
          /\ fasc[k].kind = "axon" /\ ~fasc[k].myelinated
          /\ fasc[k].bs = <<<<1, <<10>>, 1>>>>

\* C8: get_index_myelinated_sequence(n) returns "node" for every n in "nodes"
\* mode, and otherwise axon_path_type[0] for n = 0 and
\* axon_path_type[((n-1) // (Nseg_per_sec + 1)) % 11] for any other n.
C8_SequenceLabel ==
    (ret.op = "get_index_myelinated_sequence")
    => /\ ret.status = "ok"
       /\ ret.val =
             IF mye.rec = "nodes" THEN "node"
             ELSE IF ret.args.n = 0 THEN mye.axon_path_type[1]
             ELSE mye.axon_path_type[
                     (((ret.args.n - 1) \div (mye.Nseg_per_sec + 1)) % 11) + 1]

C8_Witness ==
    /\ ret.op = "get_index_myelinated_sequence"
    /\ mye.rec = "all"
    /\ mye.Nseg_per_sec = 1
    /\ ret.args.n = 23
    /\ mye.axon_path_type[1] = "MYSA"
    /\ ret.val = "MYSA"

\* C9: outside "nodes" mode a call get_index_myelinated_sequence(n) logs a
\* warning whenever n is beyond the last index len(x_rec)-1, logs none when n
\* is one of the indices 0 .. len(x_rec)-1, and in both cases returns a label
\* without raising.
C9_WarningIffOutOfRange ==
    (ret.op = "get_index_myelinated_sequence" /\ mye.rec # "nodes")
    => /\ ret.status = "ok"
       /\ ret.args.n > mye.nx - 1 => ret.warns # <<>>
       /\ ret.args.n \in 0..(mye.nx - 1) => ret.warns = <<>>

\* C10: in "nodes" mode find_central_node_index returns len(x_rec) // 2,
\* classifies no point and logs no warning.
C10_CentralNodeInNodesMode ==
    (ret.op = "find_central_node_index" /\ mye.rec = "nodes")
    => /\ ret.status = "ok"
       /\ ret.val = mye.nx \div 2
       /\ ret.warns = <<>>
       /\ ret.probes = 0

C10_Witness ==
    /\ ret.op = "find_central_node_index"
    /\ mye.rec = "nodes"
    /\ mye.nx = 5
    /\ ret.val = 2

\* the indices of x_rec that get_index_myelinated_sequence classifies "node"
NodeIndices ==
    {n \in 0..(mye.nx - 1) :
        LET r == get_index_myelinated_sequence(mye, n)
        IN  r.out.status = "ok" /\ r.out.val = "node"}

Dist(a, b) == IF a >= b THEN a - b ELSE b - a

\* C11: outside "nodes" mode, when some index of x_rec is classified "node",
\* find_central_node_index returns a node index with no node index strictly
\* closer to len(x_rec) // 2 and logs no warning; it logs the warning and
\* returns len(x_rec) // 2 only when no index is a node; it never raises.
C11_CentralNodeNearest ==
    (ret.op = "find_central_node_index" /\ mye.rec # "nodes")
    => /\ ret.status = "ok"
       /\ IF NodeIndices # {}
          THEN /\ ret.val \in NodeIndices
               /\ \A n \in NodeIndices :
                     Dist(n, mye.nx \div 2) >= Dist(ret.val, mye.nx \div 2)
               /\ ret.warns = <<>>
          ELSE /\ ret.val = mye.nx \div 2
               /\ ret.warns = <<"No node found in the axon">>

\* C12: in "nodes" mode get_myelin_properties logs a warning, returns None and
\* changes nothing on the result, g_mye, c_mye and f_mye included; in any other
\* mode it returns (g_mye, c_mye, f_mye) and the three are then stored on the
\* result with the returned values.
C12_MyelinPropertiesStored ==
    [][(Idle /\ ret'.op = "get_myelin_properties")
       => IF mye.rec = "nodes"
          THEN /\ ret'.status = "none"
               /\ ret'.warns # <<>>
               /\ mye' = mye
               /\ myl'.g_mye = myl.g_mye
               /\ myl'.c_mye = myl.c_mye
               /\ myl'.f_mye = myl.f_mye
          ELSE /\ ret'.status = "ok"
               /\ Len(ret'.val) = 3
               /\ myl'.g_mye = <<ret'.val[1]>>
               /\ myl'.c_mye = <<ret'.val[2]>>
               /\ myl'.f_mye = <<ret'.val[3]>>]_vars

C12_Witness ==
    /\ ret.op = "get_myelin_properties"
    /\ mye.rec = "all"
    /\ ret.status = "ok"
    /\ myl.g_mye = <<ret.val[1]>>
    /\ Len(ret.val[1]) = 2
    /\ myl.f_mye # None

\* C16: outside "nodes" mode, with an endo_mat, exactly the entries of g_mye at
\* the 1e10 sentinel take the conductivity of the material and the others keep
\* the myelin conductance of the axon; without endo_mat no entry changes.  A
\* material given by name is loaded through load_material, a material object
\* is used as it is.
C16_SentinelReplaced ==
    (ret.op = "get_myelin_properties" /\ mye.rec # "nodes")
    => LET e == ret.args.endo_mat
           g == ret.val[1]
       IN  /\ ret.status = "ok"
           /\ Len(g) = Len(myl.ax_g)
           /\ e = <<>> => g = myl.ax_g /\ myl.loaded = <<>>
           /\ e # <<>> =>
                 LET sigma == IF e[1].is_mat THEN e[1].sigma ELSE 300000
                 IN  /\ \A i \in 1..Len(g) :
                            g[i] = IF myl.ax_g[i] = 1000000000
                                   THEN sigma \div 100000
                                   ELSE myl.ax_g[i]
                     /\ myl.loaded = IF e[1].is_mat THEN <<>>
                                     ELSE <<e[1].name>>

C16_Witness ==
    /\ ret.op = "get_myelin_properties"
    /\ mye.rec = "all"
    /\ ret.args.endo_mat # <<>>
    /\ ~ret.args.endo_mat[1].is_mat
    /\ myl.ax_g = <<1000000000, 5>>
    /\ ret.val[1] = <<3, 5>>
    /\ myl.loaded = <<"endoneurium_ranck">>

\* the surface capacitance of the two populations, in uF/cm**2
SurfaceCapacitances ==
    <<membrane_capacitance_from_model(par.unmyelinated_model),
      membrane_capacitance_from_model(par.myelinated_model)>>

\* C13: when the unit holds the character "2", the pair returned by
\* get_membrane_capacitance is the one every other mem_th gives as well; when
\* it holds none, each value is the surface value times the membrane
\* thickness (in cm), converted to the unit.
C13_CapacitanceThickness ==
    (ret.op = "get_membrane_capacitance")
    => LET unit == ret.args.unit
           th == ret.args.mem_th
       IN  /\ ret.status = "ok"
           /\ (\E k \in 1..Len(unit) : unit[k] = "2") =>
                 \A th2 \in MemThs :
                    get_membrane_capacitance(par, unit, th2).val = ret.val
           /\ (\A k \in 1..Len(unit) : unit[k] # "2") =>
                 \A j \in 1..2 :
                    LET cm == SurfaceCapacitances[j]
                    IN  ret.val[j] =
                           Normal(<<cm[1] * th[1],
                                    cm[2] + th[2] - 4 - 4 - UnitExp(unit)>>)

C13_Witness ==
    /\ ret.op = "get_membrane_capacitance"
    /\ ret.args.unit = U_F_m2
    /\ ret.args.mem_th = <<1, -2>>
    /\ par.myelinated_model = "MRG"
    /\ ret.val[2] = <<2, -2>>

\* the filtered axons the call in ret divides by when it normalizes
NormalizedOver ==
    LET F == Filtered(ret.args.ax_type)
    IN  IF ret.op = "get_recruited_axons" THEN F
        ELSE IF ret.op = "get_recruited_axons_greater_than"
        THEN {k \in F : fasc[k].diameter > ret.args.diam}
        ELSE {k \in F : fasc[k].diameter < ret.args.diam}

\* C14: for a recognized ax_type, when no axon matches ax_type
\* (get_recruited_axons) or no filtered axon passes the diameter test
\* (get_recruited_axons_greater_than / _lesser_than), the call with normalize
\* ends in a division-by-zero error and the call without normalize returns 0.
C14_EmptyNormalization ==
    (/\ ret.op \in RecruitOps
     /\ ret.args.ax_type \in {"all", "myelinated", "unmyelinated"}
     /\ NormalizedOver = {})
    => IF ret.args.normalize
       THEN ret.status = "error" /\ ret.val = "ZeroDivisionError"
       ELSE ret.status = "ok" /\ ret.val = 0

C14_Witness ==
    /\ ret.op = "get_recruited_axons_lesser_than"
    /\ ret.args.ax_type = "myelinated"
    /\ ret.args.normalize
    /\ ret.args.diam = 5
    /\ ret.status = "error"
    /\ Cardinality(Filtered("myelinated")) = 2

PlotOps == {"plot_recruited_fibers", "plot_block_summary"}

\* C15: a call of plot_recruited_fibers or plot_block_summary renders on the
\* axes only in the process where the master-only check is true; in any other
\* process it draws nothing, asks no axon for is_recruited, invokes no
\* block_summary and leaves the fascicle result and its entries unchanged.
C15_MasterOnlyPlots ==
    [][(Idle /\ ret'.op \in PlotOps)
       => /\ proc'.axes # <<>> => proc.master
          /\ ~proc.master =>
                /\ proc'.axes = <<>>
                /\ ret'.probes = 0
                /\ fasc' = fasc
                /\ ret'.status = "none"]_vars

C15_Witness ==
    /\ ret.op = "plot_block_summary"
    /\ ~proc.master
    /\ proc.axes = <<>>
    /\ Cardinality(Filtered("all")) = 2
    /\ \A k \in Filtered("all") : fasc[k].bs = <<>>

\* C17: get_membrane_complexe_admitance ends in an error, the arithmetic on
\* None, whenever the conductivity of some axon is unavailable, that is
\* whenever the aggregate conductivity of the fascicle is None.
C17_AdmittanceFailsOnNone ==
    (/\ ret.op = "get_membrane_complexe_admitance"
     /\ \E k \in Filtered("all") : fasc[k].g = None)
    => /\ ret.status = "error"
       /\ ret.val = "TypeError"

C17_Witness ==
    /\ ret.op = "get_membrane_complexe_admitance"
    /\ ret.status = "error"
    /\ Cardinality(Filtered("all")) = 2
    /\ \E k \in Filtered("all") : fasc[k].g = None
    /\ \E k \in Filtered("all") : fasc[k].g # None

\* particle i of o at iteration j equals best_position after rounding to d
\* decimals
Matches(o, i, j, d) ==
    \A k \in 1..Len(o.best_position) :
        around(o.position[i][j + 1][k], d) = around(o.best_position[k], d)

\* the iterations below lim_it at which some particle matches
MatchIts(o, d) ==
    {j \in 0..o.lim_it[1] - 1 : \E i \in 1..o.n_particles : Matches(o, i, j, d)}

Least(S) == CHOOSE x \in S : \A y \in S : x <= y

\* the result of a finished call: -1 with the warning below the floor of
\* decimals, else the first match in iteration-major, particle-number order
ResultOk ==
    opt.pc = "done" =>
        IF opt.result = 0 - 1
        THEN opt.decimals < DecimalsFloor /\ opt.warns # <<>>
        ELSE /\ opt.result \in 1..opt.n_particles
             /\ MatchIts(opt, opt.decimals) # {}
             /\ opt.result =
                   Least({i \in 1..opt.n_particles :
                             Matches(opt, i, Least(MatchIts(opt, opt.decimals)),
                                     opt.decimals)})

\* an activation that neither returns a particle nor gives up recurses with
\* one decimal less, after a pass without a match; below the floor it gives up
PassOk ==
    opt.pc = "call" =>
        /\ opt.decimals < DecimalsFloor => opt'.pc = "done" /\ opt'.result = 0 - 1
        /\ opt'.pc = "call" =>
              /\ opt'.decimals = opt.decimals - 1
              /\ opt'.passes = opt.passes + 1
              /\ MatchIts(opt', opt.decimals) = {}

\* C18: findbestpart(decimals, lim_it) terminates; each unsuccessful pass over
\* iterations 0..lim_it-1 and particles 1..n_particles recurses with
\* decimals-1, and the recursion stops with -1 and a warning once
\* decimals < -15; the result is -1 or the first particle, in iteration-major
\* then particle-number order, whose position equals best_position after
\* rounding to the current number of decimals.
C18_FindBestPartTerminates ==
    /\ []ResultOk
    /\ [][PassOk]_vars
    /\ (opt.pc = "call") ~> (opt.pc = "done")

C18_Witness ==
    /\ opt.pc = "done"
    /\ opt.result = 2
    /\ opt.passes = 1
    /\ Matches(opt, 1, 1, opt.decimals)
    /\ ~Matches(opt, 1, 0, opt.decimals)

====
